---------------------------- MODULE Spec2Model ----------------------------
(***************************************************************************)
(* The player and bat controllers of action-rpg (src/src/player.rs,        *)
(* src/src/bat.rs) as a state machine driven by the host engine's          *)
(* callbacks.                                                              *)
(*                                                                         *)
(* Numbers.  The code computes in f32.  The model computes in fixed point: *)
(* a speed s is the integer s * VQ, a direction component c (|c| <= 1) is  *)
(* the integer c * DQ, a frame delta is an integer number of milliseconds. *)
(* Every product and quotient is rounded to the nearest integer, as f32    *)
(* rounds to the nearest representable value.  Vectors are records         *)
(* [x, y].                                                                 *)
(*                                                                         *)
(* Host.  The engine calls the exported methods; none of them checks the   *)
(* state it is called in, so every callback is enabled in every state.     *)
(* The scene lookups (get_typed_node, cast_instance, unwrap) succeed, and  *)
(* map_mut on the sword hitbox succeeds: a failed lookup aborts the        *)
(* callback before it touches a field.  The sword hitbox starts with the   *)
(* zero vector (its constructor is not part of player.rs or bat.rs).       *)
(*                                                                         *)
(* Definitions named x_<variant> next to a definition x are x with one     *)
(* slip put in; the properties at the end are tried against them as well.  *)
(***************************************************************************)
EXTENDS Integers, FiniteSets, Sequences, TLC

VARIABLES
    velocity,          \* Player.velocity                     (player.rs:15)
    state,             \* Player.state                        (player.rs:16)
    roll_vector,       \* Player.roll_vector                  (player.rs:17)
    knockback_vector,  \* SwordHitbox.knockback_vector        (player.rs:133)
    travel,            \* animation last requested by the player (travel)
    blend_position,    \* the four blend_position parameters  (player.rs:119-122)
    knockback,         \* Bat.knockback                       (bat.rs:10)
    hits,              \* number of hurtbox callbacks delivered so far
    calls,             \* number of callbacks counted so far
    last               \* the callback the host invoked last, with its inputs

vars == <<velocity, state, roll_vector, knockback_vector, travel,
          blend_position, knockback, hits, calls, last>>

playerVars == <<velocity, state, roll_vector>>
swordVars  == <<knockback_vector>>
animVars   == <<travel, blend_position>>
batVars    == <<knockback>>

-----------------------------------------------------------------------------
(* Resolution of the fixed-point numbers and the bounds on the runs.       *)

VQ == 10          \* velocity units per 1.0
DQ == 1000        \* direction units per 1.0
MaxHits == 2      \* hurtbox callbacks delivered in one behaviour
MaxCalls == 3     \* callbacks delivered in one behaviour of the player alone
MaxJoint == 2     \* callbacks delivered in one behaviour of player and bat together,
                  \* and ahead of the frames of a player left to coast

(* Program constants.                                                      *)
ACCELERATION == 500
MAX_SPEED == 80
ROLL_SPEED == 120
FRICTION == 500
KNOCKBACK_DECAY == 200
KNOCKBACK_MULTIPLIER == 120

(* Inputs the host may supply.                                             *)
Strengths == {0, DQ}                 \* get_action_strength: released, pressed
Deltas    == {0, 100, 600}           \* frame delta in milliseconds

-----------------------------------------------------------------------------
(* Arithmetic.                                                             *)

Abs(a) == IF a >= 0 THEN a ELSE -a

\* a / b rounded to the nearest integer, halves away from zero (b > 0).
RDiv(a, b) == IF a >= 0 THEN (2 * a + b) \div (2 * b)
                        ELSE -((2 * (-a) + b) \div (2 * b))

\* the largest r in lo..hi with r * r <= n (lo * lo <= n < (hi + 1)^2), by
\* bisection
SqrtFloor[n \in Nat, lo \in Nat, hi \in Nat] ==
    IF lo >= hi THEN lo
    ELSE LET mid == (lo + hi + 1) \div 2
         IN IF mid * mid <= n THEN SqrtFloor[n, mid, hi]
                              ELSE SqrtFloor[n, lo, mid - 1]

\* sqrt(n) rounded to the nearest integer
Sqrt(n) == LET r == SqrtFloor[n, 0, 46340]
           IN IF n - r * r > r THEN r + 1 ELSE r

Vec(a, b) == [x |-> a, y |-> b]
Zero == Vec(0, 0)
Down == Vec(0, DQ)

LengthSq(v) == v.x * v.x + v.y * v.y
Length(v) == Sqrt(LengthSq(v))
Sub(a, b) == Vec(a.x - b.x, a.y - b.y)
Add(a, b) == Vec(a.x + b.x, a.y + b.y)

\* direction * speed: a velocity
Scale(dir, speed) == Vec(RDiv(dir.x * speed * VQ, DQ), RDiv(dir.y * speed * VQ, DQ))

\* rate (units per second) * delta (milliseconds): a velocity step
Step(rate, delta) == RDiv(rate * VQ * delta, 1000)

\* Vector2::try_normalize().unwrap_or(v): the zero vector has no direction
try_normalize(v) ==
    LET len == Length(v)
    IN IF len = 0 THEN v ELSE Vec(RDiv(v.x * DQ, len), RDiv(v.y * DQ, len))

\* variant: always a whole step along the line, without stopping at `to`
move_towards_unclamped(v, to, step) ==
    LET vd  == Sub(to, v)
        len == Length(vd)
    IN IF len = 0
       THEN to
       ELSE Add(v, Vec(RDiv(vd.x * step, len), RDiv(vd.y * step, len)))

\* Vector2Godot::move_towards: the whole way when `to` is within `step`,
\* else `step` along the straight line to it
move_towards(v, to, step) ==
    LET vd  == Sub(to, v)
        len == Length(vd)
    IN IF len <= step \/ len = 0
       THEN to
       ELSE Add(v, Vec(RDiv(vd.x * step, len), RDiv(vd.y * step, len)))

\* KinematicBody2D::move_and_slide: the engine returns the velocity left after
\* sliding along what was hit: nothing, a vertical wall, a horizontal wall, a
\* corner
move_and_slide(v) == {v, Vec(v.x, 0), Vec(0, v.y), Zero}

-----------------------------------------------------------------------------
(* Player                                                                  *)

get_movement_input(right, left, down, up) ==
    try_normalize(Vec(right - left, down - up))

\* variant: the step is not scaled by delta
move_on_input_no_delta(vel, rv, kv, input_vector, delta) ==
    IF input_vector # Zero
    THEN [velocity |-> move_towards(vel, Scale(input_vector, MAX_SPEED),
                                    ACCELERATION * VQ),
          roll_vector |-> input_vector,
          knockback_vector |-> input_vector]
    ELSE [velocity |-> move_towards(vel, Zero, FRICTION * VQ),
          roll_vector |-> rv,
          knockback_vector |-> kv]

\* variant: the sword hitbox is written on frames without input too
move_on_input_always_aims(vel, rv, kv, input_vector, delta) ==
    IF input_vector # Zero
    THEN [velocity |-> move_towards(vel, Scale(input_vector, MAX_SPEED),
                                    Step(ACCELERATION, delta)),
          roll_vector |-> input_vector,
          knockback_vector |-> input_vector]
    ELSE [velocity |-> move_towards(vel, Zero, Step(FRICTION, delta)),
          roll_vector |-> rv,
          knockback_vector |-> input_vector]

\* variant: without input the velocity eases toward the last direction
move_on_input_coasting(vel, rv, kv, input_vector, delta) ==
    IF input_vector # Zero
    THEN [velocity |-> move_towards(vel, Scale(input_vector, MAX_SPEED),
                                    Step(ACCELERATION, delta)),
          roll_vector |-> input_vector,
          knockback_vector |-> input_vector]
    ELSE [velocity |-> move_towards(vel, Scale(rv, MAX_SPEED), Step(FRICTION, delta)),
          roll_vector |-> rv,
          knockback_vector |-> kv]

\* variant: the velocity closes a fraction of the remaining distance, the
\* fraction growing with rate * delta (an interpolation toward the target)
move_on_input_proportional(vel, rv, kv, input_vector, delta) ==
    LET target == IF input_vector # Zero THEN Scale(input_vector, MAX_SPEED)
                                         ELSE Zero
        rate   == IF input_vector # Zero THEN ACCELERATION ELSE FRICTION
        weight == IF rate * delta >= 100000 THEN 100000 ELSE rate * delta
        vd     == Sub(target, vel)
    IN [velocity |-> Add(vel, Vec(RDiv(vd.x * weight, 100000),
                                  RDiv(vd.y * weight, 100000))),
        roll_vector |-> IF input_vector # Zero THEN input_vector ELSE rv,
        knockback_vector |-> IF input_vector # Zero THEN input_vector ELSE kv]

\* variant: friction takes its whole step off the velocity even when less
\* than a step is left
move_on_input_friction_reverses(vel, rv, kv, input_vector, delta) ==
    IF input_vector # Zero
    THEN [velocity |-> move_towards(vel, Scale(input_vector, MAX_SPEED),
                                    Step(ACCELERATION, delta)),
          roll_vector |-> input_vector,
          knockback_vector |-> input_vector]
    ELSE LET len == Length(vel)
             st  == Step(FRICTION, delta)
         IN [velocity |-> IF len = 0 THEN vel
                          ELSE Vec(vel.x - RDiv(vel.x * st, len),
                                   vel.y - RDiv(vel.y * st, len)),
             roll_vector |-> rv,
             knockback_vector |-> kv]

\* variant: roll_vector follows the input vector on frames without input too
move_on_input_forgets_direction(vel, rv, kv, input_vector, delta) ==
    IF input_vector # Zero
    THEN [velocity |-> move_towards(vel, Scale(input_vector, MAX_SPEED),
                                    Step(ACCELERATION, delta)),
          roll_vector |-> input_vector,
          knockback_vector |-> input_vector]
    ELSE [velocity |-> move_towards(vel, Zero, Step(FRICTION, delta)),
          roll_vector |-> input_vector,
          knockback_vector |-> kv]

\* variant: the sword hitbox is given roll_vector before roll_vector is updated
move_on_input_aims_late(vel, rv, kv, input_vector, delta) ==
    IF input_vector # Zero
    THEN [velocity |-> move_towards(vel, Scale(input_vector, MAX_SPEED),
                                    Step(ACCELERATION, delta)),
          roll_vector |-> input_vector,
          knockback_vector |-> rv]
    ELSE [velocity |-> move_towards(vel, Zero, Step(FRICTION, delta)),
          roll_vector |-> rv,
          knockback_vector |-> kv]

move_on_input(vel, rv, kv, input_vector, delta) ==
    IF input_vector # Zero
    THEN [velocity |-> move_towards(vel, Scale(input_vector, MAX_SPEED),
                                    Step(ACCELERATION, delta)),
          roll_vector |-> input_vector,
          knockback_vector |-> input_vector]
    ELSE [velocity |-> move_towards(vel, Zero, Step(FRICTION, delta)),
          roll_vector |-> rv,
          knockback_vector |-> kv]

\* variant: the blend positions are written on frames without input too
animate_on_input_always_blends(blend, input_vector) ==
    IF input_vector # Zero
    THEN [travel |-> "Run", blend_position |-> input_vector]
    ELSE [travel |-> "Idle", blend_position |-> input_vector]

animate_on_input(blend, input_vector) ==
    IF input_vector # Zero
    THEN [travel |-> "Run", blend_position |-> input_vector]
    ELSE [travel |-> "Idle", blend_position |-> blend]

\* variant: the roll uses the walking speed
roll_at_max_speed(rv) == Scale(rv, MAX_SPEED)

roll(rv) == Scale(rv, ROLL_SPEED)

handle_attack_input(st, attack) == IF attack THEN "Attack" ELSE st

handle_roll_input(st, rollp) == IF rollp THEN "Roll" ELSE st

\* variant: the attack and roll inputs are polled in every state
process_state_in_every_arm(st, attack, rollp) ==
    handle_roll_input(handle_attack_input(st, attack), rollp)

\* variant: the attack input is handled after the roll input
process_state_attack_wins(st, attack, rollp) ==
    IF st = "Move"
    THEN handle_attack_input(handle_roll_input(st, rollp), attack)
    ELSE st

\* _process, the state it leaves: only the Move arm polls the attack and roll
\* inputs, attack first and roll after it
process_state(st, attack, rollp) ==
    IF st = "Move"
    THEN handle_roll_input(handle_attack_input(st, attack), rollp)
    ELSE st

\* The record of a callback: its name, the vector it read (the input vector of
\* a player frame, the velocity a player physics tick started from, the
\* knockback a bat callback started from, the vector the hurtbox callback
\* read from the other entity), its delta and the
\* just-pressed flags it polled.
Call(op, arg, delta, attack, rollp) ==
    [op |-> op, arg |-> arg, delta |-> delta, attack |-> attack, roll |-> rollp]

Host(op) == Call(op, Zero, 0, FALSE, FALSE)

\* every vector get_movement_input can return for the strengths polled
InputVectors ==
    {get_movement_input(right, left, down, up) : right, left, down, up \in Strengths}

\* one call of _process, with the input vector and the just-pressed flags the
\* host reports during it
PlayerFrame(input_vector, attack, rollp, delta) ==
        LET anim  == animate_on_input(blend_position, input_vector)
            moved == move_on_input(velocity, roll_vector, knockback_vector,
                                   input_vector, delta)
        IN /\ CASE state = "Move" ->
                    /\ travel' = anim.travel
                    /\ blend_position' = anim.blend_position
                    /\ velocity' = moved.velocity
                    /\ roll_vector' = moved.roll_vector
                    /\ knockback_vector' = moved.knockback_vector
                [] state = "Attack" ->
                    /\ travel' = "Attack"
                    /\ UNCHANGED <<blend_position, velocity, roll_vector,
                                   knockback_vector>>
                [] state = "Roll" ->
                    /\ velocity' = roll(roll_vector)
                    /\ travel' = "Roll"
                    /\ UNCHANGED <<blend_position, roll_vector,
                                   knockback_vector>>
           /\ state' = process_state(state, attack, rollp)
           /\ last' = Call("Player::_process", input_vector, delta, attack, rollp)
           /\ UNCHANGED <<knockback, hits>>

PlayerProcess ==
    \E input_vector \in InputVectors, attack, rollp \in BOOLEAN, delta \in Deltas :
        PlayerFrame(input_vector, attack, rollp, delta)

\* variant: the physics tick slides in Attack as it does in Move and Roll
PlayerPhysicsProcess_slides_in_attack ==
    /\ velocity' \in move_and_slide(velocity)
    /\ last' = Call("Player::_physics_process", velocity, 0, FALSE, FALSE)
    /\ UNCHANGED <<state, roll_vector, knockback_vector, travel,
                   blend_position, knockback, hits>>

PlayerPhysicsProcess ==
    /\ CASE state = "Move"   -> velocity' \in move_and_slide(velocity)
         [] state = "Attack" -> velocity' = Zero
         [] state = "Roll"   -> velocity' \in move_and_slide(velocity)
    /\ last' = Call("Player::_physics_process", velocity, 0, FALSE, FALSE)
    /\ UNCHANGED <<state, roll_vector, knockback_vector, travel,
                   blend_position, knockback, hits>>

\* variant: the attack callback scales the velocity as the roll callback does
attack_animation_finished_scaling ==
    /\ velocity' = Vec(RDiv(velocity.x * 8, 10), RDiv(velocity.y * 8, 10))
    /\ state' = "Move"
    /\ last' = Host("attack_animation_finished")
    /\ UNCHANGED <<roll_vector, knockback_vector, travel, blend_position,
                   knockback, hits>>

attack_animation_finished ==
    /\ state' = "Move"
    /\ last' = Host("attack_animation_finished")
    /\ UNCHANGED <<velocity, roll_vector, knockback_vector, travel,
                   blend_position, knockback, hits>>

\* variant: only the x component is scaled
roll_animation_finished_x_only ==
    /\ velocity' = Vec(RDiv(velocity.x * 8, 10), velocity.y)
    /\ state' = "Move"
    /\ last' = Host("roll_animation_finished")
    /\ UNCHANGED <<roll_vector, knockback_vector, travel, blend_position,
                   knockback, hits>>

\* variant: the velocity is divided by 0.8
roll_animation_finished_divides ==
    /\ velocity' = Vec(RDiv(velocity.x * 10, 8), RDiv(velocity.y * 10, 8))
    /\ state' = "Move"
    /\ last' = Host("roll_animation_finished")
    /\ UNCHANGED <<roll_vector, knockback_vector, travel, blend_position,
                   knockback, hits>>

roll_animation_finished ==
    /\ velocity' = Vec(RDiv(velocity.x * 8, 10), RDiv(velocity.y * 8, 10))
    /\ state' = "Move"
    /\ last' = Host("roll_animation_finished")
    /\ UNCHANGED <<roll_vector, knockback_vector, travel, blend_position,
                   knockback, hits>>

-----------------------------------------------------------------------------
(* Bat                                                                     *)

\* the vectors a knockback_vector can hold: a normalised input, or zero
Directions == {try_normalize(Vec(a, b)) : a, b \in {-DQ, 0, DQ}}

\* variant: subtracts the step along the knockback's direction, without stopping at zero
bat_decay_overshoots(k, delta) ==
    LET len == Length(k)
        st  == Step(KNOCKBACK_DECAY, delta)
    IN IF len = 0 THEN k
       ELSE Vec(k.x - RDiv(k.x * st, len), k.y - RDiv(k.y * st, len))

\* variant: takes whole steps only, and stops short of zero
bat_decay_stops_short(k, delta) ==
    LET len == Length(k)
        st  == Step(KNOCKBACK_DECAY, delta)
    IN IF len <= st THEN k
       ELSE Vec(k.x - RDiv(k.x * st, len), k.y - RDiv(k.y * st, len))

bat_decay(k, delta) == move_towards(k, Zero, Step(KNOCKBACK_DECAY, delta))

\* variant: the hit is added to the knockback in place
hurtbox_knockback_adds(k, kv) == Add(k, Scale(kv, KNOCKBACK_MULTIPLIER))

hurtbox_knockback(k, kv) == Scale(kv, KNOCKBACK_MULTIPLIER)

BatProcess ==
    \E delta \in Deltas :
        /\ knockback' = bat_decay(knockback, delta)
        /\ last' = Call("Bat::_process", knockback, delta, FALSE, FALSE)
        /\ UNCHANGED <<playerVars, swordVars, animVars, hits>>

BatPhysicsProcess ==
    /\ knockback' \in move_and_slide(knockback)
    /\ last' = Call("Bat::_physics_process", knockback, 0, FALSE, FALSE)
    /\ UNCHANGED <<playerVars, swordVars, animVars, hits>>

\* player.knockback_vector is read from the other entity; Player declares no
\* such field (player.rs:14-18), so the vector read is any direction a
\* knockback_vector can hold (player.rs:133) or its default, the zero vector.
on_Hurtbox_area_entered ==
    /\ hits < MaxHits
    /\ \E kv \in Directions :
        /\ knockback' = hurtbox_knockback(knockback, kv)
        /\ last' = Call("_on_Hurtbox_area_entered", kv, 0, FALSE, FALSE)
    /\ hits' = hits + 1
    /\ UNCHANGED <<playerVars, swordVars, animVars>>

-----------------------------------------------------------------------------

Init ==
    /\ velocity = Zero
    /\ state = "Move"
    /\ roll_vector = Down
    /\ knockback_vector = Zero
    /\ travel = "None"
    /\ blend_position = Zero
    /\ knockback = Zero
    /\ hits = 0
    /\ calls = 0
    /\ last = Host("new")

\* A callback of a bounded run (of the player alone, of both controllers),
\* and one of an unbounded run.
Counted(A) == calls < MaxCalls /\ A /\ calls' = calls + 1
Joint(A) == calls < MaxJoint /\ A /\ calls' = calls + 1
Free(A) == A /\ UNCHANGED calls

PlayerNext ==
    \/ Counted(PlayerProcess)
    \/ Counted(PlayerPhysicsProcess)
    \/ Counted(attack_animation_finished)
    \/ Counted(roll_animation_finished)

BatNext ==
    \/ Free(BatProcess)
    \/ Free(BatPhysicsProcess)
    \/ Free(on_Hurtbox_area_entered)

Next ==
    \/ Joint(PlayerProcess)
    \/ Joint(PlayerPhysicsProcess)
    \/ Joint(attack_animation_finished)
    \/ Joint(roll_animation_finished)
    \/ Joint(BatProcess)
    \/ Joint(BatPhysicsProcess)
    \/ Joint(on_Hurtbox_area_entered)

\* Both controllers, MaxJoint callbacks.
Spec == Init /\ [][Next]_vars

\* The player alone, MaxCalls callbacks.
SpecPlayer == Init /\ [][PlayerNext]_vars

\* The bat alone, any number of callbacks, MaxHits hurtbox callbacks.
SpecBat == Init /\ [][BatNext]_vars

\* The bat alone, with the host calling _process with a positive delta again
\* and again (once per frame).
BatFrame == Free(BatProcess) /\ last'.delta > 0
SpecBatLive == SpecBat /\ WF_vars(BatFrame)

\* The player alone, MaxJoint callbacks of any kind, and the host calling
\* _process with a positive delta again and again (once per frame) while no
\* action is pressed.
CoastFrame ==
    /\ state = "Move"
    /\ \E delta \in Deltas \ {0} : PlayerFrame(Zero, FALSE, FALSE, delta)

CoastNext ==
    \/ Joint(PlayerProcess)
    \/ Joint(PlayerPhysicsProcess)
    \/ Joint(attack_animation_finished)
    \/ Joint(roll_animation_finished)
    \/ Free(CoastFrame)

SpecCoast == Init /\ [][CoastNext]_vars /\ WF_vars(Free(CoastFrame))

-----------------------------------------------------------------------------
(* Properties                                                              *)

IsPlayerFrame  == last'.op = "Player::_process"
IsPlayerTick   == last'.op = "Player::_physics_process"
IsAttackDone   == last'.op = "attack_animation_finished"
IsRollDone     == last'.op = "roll_animation_finished"

\* w is 0.8 * v, component by component, to the nearest unit
Scaled08(v, w) ==
    /\ Abs(10 * w.x - 8 * v.x) <= 5
    /\ Abs(10 * w.y - 8 * v.y) <= 5

\* w is dir * speed, component by component, to the nearest unit
IsDirTimes(w, dir, speed) ==
    /\ 2 * Abs(DQ * w.x - dir.x * speed * VQ) <= DQ
    /\ 2 * Abs(DQ * w.y - dir.y * speed * VQ) <= DQ

C1_Step ==
    /\ (state' # state) =>
          (\/ /\ state = "Move" /\ state' = "Attack"
              /\ IsPlayerFrame /\ last'.attack
           \/ /\ state = "Move" /\ state' = "Roll"
              /\ IsPlayerFrame /\ last'.roll
           \/ /\ state' = "Move"
              /\ (IsAttackDone \/ IsRollDone))
    /\ IsPlayerTick => (state' = state)
    /\ (IsPlayerFrame /\ state \in {"Attack", "Roll"}) => (state' = state)

\* C1: the player starts in Move; the state changes only from Move to Attack
\* (a Move frame with attack just pressed), from Move to Roll (a Move frame
\* with roll just pressed) and to Move (an animation-finished callback); a
\* physics tick and a frame in Attack or Roll never change it.
C1_Transitions == (state = "Move") /\ [][C1_Step]_vars

\* an attack was accepted, animated and finished
C1_Witness ==
    /\ last.op = "attack_animation_finished"
    /\ travel = "Attack"
    /\ state = "Move"

C2_OriginalStep ==
    /\ (state = "Attack" /\ state' # "Attack") => IsAttackDone
    /\ (state = "Roll" /\ state' # "Roll") =>
          (IsRollDone /\ state' = "Move" /\ Scaled08(velocity, velocity'))
    /\ (state \in {"Move", "Attack"} /\ IsRollDone) => (velocity' = velocity)

\* C2 as stated: Attack is left only by attack_animation_finished, Roll only
\* by roll_animation_finished, and the 0.8 scaling never touches a player in
\* Move or Attack.
C2_Original == [][C2_OriginalStep]_vars

C2_AmendedStep ==
    /\ (state \in {"Attack", "Roll"} /\ state' # state) =>
          (state' = "Move" /\ (IsAttackDone \/ IsRollDone))
    /\ IsAttackDone => (state' = "Move" /\ velocity' = velocity)
    /\ IsRollDone => (state' = "Move" /\ Scaled08(velocity, velocity'))

\* C2 amended: Attack and Roll are left only by an animation-finished
\* callback and only for Move, but either callback ends either state:
\* attack_animation_finished sets Move and keeps the velocity whatever the
\* state, roll_animation_finished sets Move and scales the velocity by 0.8
\* whatever the state.
C2_Amended == [][C2_AmendedStep]_vars

\* a roll under way (velocity pinned by a Roll frame) ended by the attack
\* callback: the player is in Move at full roll speed
C2_Witness ==
    /\ last.op = "attack_animation_finished"
    /\ travel = "Roll"
    /\ state = "Move"
    /\ velocity = Vec(0, ROLL_SPEED * VQ)

C3_Step ==
    IsRollDone => (/\ Scaled08(velocity, velocity')
                   /\ state' = "Move"
                   /\ roll_vector' = roll_vector)

\* C3: roll_animation_finished multiplies each component of the velocity by
\* 0.8, sets the state to Move and leaves roll_vector unchanged.
C3_RollFinished == [][C3_Step]_vars

\* a diagonal roll finished: both components went from 84.8 to 67.8
C3_Witness ==
    /\ last.op = "roll_animation_finished"
    /\ state = "Move"
    /\ travel = "Roll"
    /\ roll_vector.x > 0 /\ roll_vector.y > 0
    /\ velocity.x > 67 * VQ /\ velocity.x < 69 * VQ
    /\ velocity.y > 67 * VQ /\ velocity.y < 69 * VQ

\* C4 as stated: whenever the state is Roll, velocity = roll_vector * 120.
C4_Original ==
    state = "Roll" => IsDirTimes(velocity, roll_vector, 120)

\* C4 amended: at the end of every frame (_process) run in Roll the velocity
\* is roll_vector * 120.  (Not in the frame that accepted the roll, which
\* leaves the Move velocity, nor after a physics tick, which stores what
\* move_and_slide returned.)
C4_Amended ==
    (last.op = "Player::_process" /\ travel = "Roll") =>
        (/\ state = "Roll"
         /\ IsDirTimes(velocity, roll_vector, 120))

\* a Roll frame that pinned the velocity after a physics tick had zeroed it
C4_Witness ==
    /\ last.op = "Player::_process"
    /\ travel = "Roll"
    /\ calls = 3
    /\ roll_vector = Vec(-DQ, 0)
    /\ velocity = Vec(-(120 * VQ), 0)

C5_Step ==
    (IsPlayerFrame /\ state = "Move" /\ velocity = Zero /\ last'.arg = Zero)
        => (velocity' = Zero)

\* C5: in Move, at rest and with all four strengths zero, a frame of any
\* delta leaves the velocity zero.
C5_RestStaysAtRest ==
    (get_movement_input(0, 0, 0, 0) = Zero) /\ [][C5_Step]_vars

\* the first frame of a resting player, no input, delta 0.6
C5_Witness ==
    /\ calls = 1
    /\ last.op = "Player::_process"
    /\ last.arg = Zero
    /\ last.delta = 600
    /\ travel = "Idle"
    /\ velocity = Zero

AxisInputs == {Vec(DQ, 0), Vec(-DQ, 0), Vec(0, DQ), Vec(0, -DQ)}

C6_Step ==
    (IsPlayerFrame /\ state = "Move" /\ last'.arg \in AxisInputs) =>
        LET target == Vec((last'.arg.x \div DQ) * 80 * VQ,
                          (last'.arg.y \div DQ) * 80 * VQ)
            step   == (500 * VQ * last'.delta) \div 1000
            before == Sub(target, velocity)
            after  == Sub(target, velocity')
            moved  == Sub(velocity', velocity)
        IN /\ LengthSq(moved) <= (step + 1) * (step + 1)
           /\ LengthSq(after) <= LengthSq(before)
           /\ before.x * after.x >= 0
           /\ before.y * after.y >= 0
           /\ (LengthSq(before) <= step * step) => (velocity' = target)
           /\ (velocity = target) => (velocity' = target)
           /\ (velocity = Zero /\ last'.delta = 600) => (velocity' = target)

\* C6: a full-strength input on one direction gives the input vector
\* (+-1, 0) or (0, +-1); in Move each frame with it moves the velocity toward
\* +-MAX_SPEED on that axis by at most ACCELERATION * delta, never past the
\* target, onto the target once ACCELERATION * delta covers what is left
\* (from rest with delta 0.6: exactly +-80 and 0), and it stays there.
C6_SingleAxis ==
    /\ get_movement_input(DQ, 0, 0, 0) = Vec(DQ, 0)
    /\ get_movement_input(0, DQ, 0, 0) = Vec(-DQ, 0)
    /\ get_movement_input(0, 0, DQ, 0) = Vec(0, DQ)
    /\ get_movement_input(0, 0, 0, DQ) = Vec(0, -DQ)
    /\ [][C6_Step]_vars

\* up held for two frames of delta 0.1 from rest: 50, then exactly 80 upward
C6_Witness ==
    /\ calls = 2
    /\ last.op = "Player::_process"
    /\ last.arg = Vec(0, -DQ)
    /\ last.delta = 100
    /\ state = "Move"
    /\ velocity = Vec(0, -(80 * VQ))

IsBatFrame == last.op = "Bat::_process"
IsBatTick  == last.op = "Bat::_physics_process"

C8_Step ==
    (/\ knockback = Zero
     /\ last'.op \in {"Bat::_process", "Bat::_physics_process"})
        => (knockback' = Zero)

\* C8: with frames of positive delta arriving again and again, the knockback
\* is eventually zero for good once the hurtbox callbacks have stopped, and a
\* zero knockback stays zero over every frame and physics tick.
C8_ReturnsToRest == <>[](knockback = Zero) /\ [][C8_Step]_vars

\* after a hit, a frame brought a non-zero knockback to rest
C8_Witness ==
    /\ hits >= 1
    /\ IsBatFrame
    /\ last.delta > 0
    /\ last.arg # Zero
    /\ knockback = Zero

\* C9: the hurtbox callback sets the knockback to 120 times the vector it
\* read from the other entity (last.arg), whatever the knockback was: same
\* direction, 120 times the length.
C9_HurtboxSets ==
    (last.op = "_on_Hurtbox_area_entered") =>
        /\ IsDirTimes(knockback, last.arg, 120)
        /\ knockback.x * last.arg.y = knockback.y * last.arg.x
        /\ knockback.x * last.arg.x >= 0
        /\ knockback.y * last.arg.y >= 0

\* a second hit, from the left
C9_Witness ==
    /\ last.op = "_on_Hurtbox_area_entered"
    /\ hits = 2
    /\ last.arg = Vec(-DQ, 0)
    /\ knockback = Vec(-(120 * VQ), 0)

IsPlayerCall ==
    last'.op \in {"Player::_process", "Player::_physics_process",
                  "attack_animation_finished", "roll_animation_finished"}

IsBatCall ==
    last'.op \in {"Bat::_process", "Bat::_physics_process",
                  "_on_Hurtbox_area_entered"}

C10_OriginalStep ==
    /\ IsPlayerCall =>
          (knockback' = knockback /\ knockback_vector' = knockback_vector)
    /\ IsBatCall =>
          UNCHANGED <<velocity, state, roll_vector, knockback_vector>>

\* C10 as stated: a player callback changes no field of another entity, the
\* sword hitbox's knockback_vector included, and a bat callback changes no
\* player field.
C10_Original == [][C10_OriginalStep]_vars

C10_AmendedStep ==
    /\ IsPlayerCall => (knockback' = knockback)
    /\ (IsPlayerFrame /\ state = "Move" /\ last'.arg # Zero) =>
          (knockback_vector' = last'.arg)
    /\ (IsPlayerCall /\ ~(IsPlayerFrame /\ state = "Move" /\ last'.arg # Zero)) =>
          (knockback_vector' = knockback_vector)
    /\ IsBatCall =>
          UNCHANGED <<velocity, state, roll_vector, knockback_vector>>

\* C10 amended: the one cross-entity write is the player's: a Move frame with
\* a non-zero input vector stores that vector in the sword hitbox's
\* knockback_vector.  Every other player callback leaves the sword hitbox
\* unchanged, no player callback changes the bat's knockback, and no bat
\* callback changes a field of the player or of the sword hitbox.
C10_Amended == [][C10_AmendedStep]_vars

\* a Move frame with input wrote the sword hitbox while the bat was knocked back
C10_Witness ==
    /\ last.op = "Player::_process"
    /\ last.arg # Zero
    /\ knockback_vector = last.arg
    /\ knockback # Zero

\* a component that a vector of length at most `speed` can hold
InRange(c, speed) == c \in Int /\ Abs(c) <= speed * VQ

\* C11: the player's velocity and the bat's knockback are finite in every
\* reachable state: each component of each is a number, no larger in
\* magnitude than 120 (ROLL_SPEED for the velocity, the hurtbox multiplier
\* for the knockback); no callback divides by a zero length.
C11_Finite ==
    /\ InRange(velocity.x, ROLL_SPEED)
    /\ InRange(velocity.y, ROLL_SPEED)
    /\ InRange(knockback.x, KNOCKBACK_MULTIPLIER)
    /\ InRange(knockback.y, KNOCKBACK_MULTIPLIER)

\* the bat was hit while the player moved at full speed
C11_Witness ==
    /\ last.op = "_on_Hurtbox_area_entered"
    /\ LengthSq(velocity) = (MAX_SPEED * VQ) * (MAX_SPEED * VQ)
    /\ LengthSq(knockback) = (KNOCKBACK_MULTIPLIER * VQ) * (KNOCKBACK_MULTIPLIER * VQ)

IsMoveFrame == IsPlayerFrame /\ state = "Move"

\* the target of a Move frame with input vector `input` and the rate it is
\* approached at
MoveTarget(input) == Vec(RDiv(input.x * 80 * VQ, DQ), RDiv(input.y * 80 * VQ, DQ))
MoveRate(input) == IF input # Zero THEN ACCELERATION ELSE FRICTION

\* The second of two Move frames with the same input and the same delta,
\* the first one run from rest: the lengths of the two changes are in the
\* proportion of the two remaining distances.
C12_OriginalStep ==
    (/\ IsMoveFrame
     /\ calls = 1
     /\ last.op = "Player::_process"
     /\ last'.arg = last.arg
     /\ last'.delta = last.delta) =>
        LET target == MoveTarget(last.arg)
            dist1  == Length(target)
            step1  == Length(velocity)
            dist2  == Length(Sub(target, velocity))
            step2  == Length(Sub(velocity', velocity))
        IN Abs(step2 * dist1 - step1 * dist2) <= 2 * (dist1 + dist2 + 2)

\* C12 as stated: in Move the change applied by one frame is proportional to
\* the distance left to the target, for a given delta.
C12_Original == [][C12_OriginalStep]_vars

C12_AmendedStep ==
    IsMoveFrame =>
        LET target == MoveTarget(last'.arg)
            step   == (MoveRate(last'.arg) * VQ * last'.delta) \div 1000
            before == Sub(target, velocity)
            after  == Sub(target, velocity')
            moved  == Sub(velocity', velocity)
        IN /\ (LengthSq(before) <= step * step) => (velocity' = target)
           /\ (LengthSq(before) > step * step) =>
                 (/\ Abs(Length(moved) - step) <= 2
                  /\ Abs(Length(before) - Length(after) - step) <= 2
                  /\ Abs(moved.x * before.y - moved.y * before.x)
                        <= Length(before) + 1
                  /\ moved.x * before.x + moved.y * before.y >= 0)

\* C12 amended: in Move a frame moves the velocity along the straight line to
\* its target (input direction * MAX_SPEED, or zero with no input) by the
\* fixed step ACCELERATION * delta (FRICTION * delta with no input), whatever
\* the distance left, and puts it exactly on the target when the distance
\* left is no more than that step.
C12_Amended == [][C12_AmendedStep]_vars

\* a frame of delta 0.1 pushing right took the full step of 50 off a leftward
\* velocity of 50, with 130 left to the target
C12_Witness ==
    /\ calls = 2
    /\ last.op = "Player::_process"
    /\ last.arg = Vec(DQ, 0)
    /\ last.delta = 100
    /\ travel = "Run"
    /\ state = "Move"
    /\ velocity = Zero

C13_Step ==
    (IsMoveFrame /\ last'.arg = Zero /\ velocity # Zero) =>
        LET step == (500 * VQ * last'.delta) \div 1000
        IN /\ LengthSq(velocity') <= LengthSq(velocity)
           /\ velocity.x * velocity'.x >= 0
           /\ velocity.y * velocity'.y >= 0
           /\ Abs(velocity.x * velocity'.y - velocity.y * velocity'.x)
                 <= Length(velocity) + 1
           /\ (LengthSq(velocity) <= step * step) => (velocity' = Zero)
           /\ (LengthSq(velocity) > step * step) =>
                 (Abs(Length(velocity) - Length(velocity') - step) <= 2)

\* C13: in Move with zero input and a non-zero velocity, a frame takes
\* min(|velocity|, FRICTION * delta) off the length of the velocity and keeps
\* its direction: the length never grows, no component changes sign, a
\* velocity within one step lands exactly on zero; and with frames of
\* positive delta arriving again and again and nothing pressed, a player in
\* Move ends up at rest for good.
C13_Friction ==
    /\ [][C13_Step]_vars
    /\ <>[](state = "Move" => velocity = Zero)

\* frames of friction of delta 0.1 brought to rest a player that one frame
\* had set moving to the right
C13_Witness ==
    /\ state = "Move"
    /\ last.op = "Player::_process"
    /\ last.arg = Zero
    /\ last.delta = 100
    /\ travel = "Idle"
    /\ calls = 1
    /\ roll_vector = Vec(DQ, 0)
    /\ velocity = Zero

IsRollFrame == IsPlayerFrame /\ state = "Roll"

C14_Step ==
    /\ (roll_vector' # roll_vector) => (IsMoveFrame /\ last'.arg # Zero)
    /\ (IsMoveFrame /\ last'.arg # Zero) => (roll_vector' = last'.arg)
    /\ roll_vector' # Zero
    /\ IsRollFrame => (Abs(Length(velocity') - 120 * VQ) <= 2)

\* C14: roll_vector starts as the down vector and is never zero; only a Move
\* frame with a non-zero input vector writes it, with that vector (no frame in
\* Attack or Roll, no physics tick, no animation-finished callback); so every
\* frame run in Roll leaves a velocity of length ROLL_SPEED.
C14_RollVector ==
    /\ roll_vector = Vec(0, DQ)
    /\ [][C14_Step]_vars

\* a player that never moved rolled: downward, at 120
C14_Witness ==
    /\ calls = 2
    /\ last.op = "Player::_process"
    /\ travel = "Roll"
    /\ state = "Roll"
    /\ roll_vector = Vec(0, DQ)
    /\ knockback_vector = Zero
    /\ velocity = Vec(0, 120 * VQ)

C15_Step ==
    (IsMoveFrame /\ last'.attack /\ last'.roll) =>
        LET target == MoveTarget(last'.arg)
            step   == (500 * VQ * last'.delta) \div 1000
            before == Sub(target, velocity)
            after  == Sub(target, velocity')
        IN /\ state' = "Roll"
           /\ roll_vector' = IF last'.arg # Zero THEN last'.arg ELSE roll_vector
           /\ LengthSq(after) <= LengthSq(before)
           /\ (LengthSq(before) <= step * step) => (velocity' = target)
           /\ (LengthSq(before) > step * step) =>
                 (Abs(Length(before) - Length(after) - step) <= 2)

\* C15: a Move frame with attack and roll both just pressed ends in Roll, not
\* Attack, and that frame's movement is applied all the same: roll_vector
\* takes a non-zero input vector, the velocity takes its step toward the
\* frame's target.
C15_RollOverridesAttack == [][C15_Step]_vars

\* both pressed while pushing right from rest, delta 0.1: Roll, at 50 to the
\* right
C15_Witness ==
    /\ calls = 1
    /\ last.op = "Player::_process"
    /\ last.attack /\ last.roll
    /\ last.arg = Vec(DQ, 0)
    /\ last.delta = 100
    /\ state = "Roll"
    /\ roll_vector = Vec(DQ, 0)
    /\ velocity = Vec(50 * VQ, 0)

C16_Step ==
    /\ (IsPlayerTick /\ state = "Attack") => (velocity' = Zero)
    /\ (IsPlayerFrame /\ state = "Attack") =>
          UNCHANGED <<velocity, roll_vector, state>>
    /\ (state = "Attack" /\ velocity = Zero) => (velocity' = Zero)
    /\ (/\ state = "Attack"
        /\ state' = "Move"
        /\ last.op = "Player::_physics_process") => (velocity' = Zero)

\* C16: a physics tick in Attack sets the velocity to zero; a frame in Attack
\* leaves velocity, roll_vector and state unchanged; a velocity that is zero
\* in Attack stays zero until the attack is over and through the callback
\* that ends it, so an attack during which a tick ran ends in Move at rest.
C16_AttackStops == [][C16_Step]_vars

\* a tick in Attack stopped a player that was moving right at 80
C16_Witness ==
    /\ calls = 2
    /\ last.op = "Player::_physics_process"
    /\ last.arg = Vec(80 * VQ, 0)
    /\ state = "Attack"
    /\ velocity = Zero

\* the length of v is at most `speed`, to the nearest unit
AtMost(v, speed) == Length(v) <= speed * VQ + 1

C17_AmendedStep ==
    /\ AtMost(velocity', 120)
    /\ (state # "Roll" /\ ~AtMost(velocity', 80)) =>
          (Length(velocity') <= Length(velocity) + 1)
    /\ (state = "Roll" /\ IsRollDone) => AtMost(velocity', 96)
    /\ (state = "Roll" /\ IsAttackDone) => (velocity' = velocity)

C18_Step ==
    /\ (IsMoveFrame /\ last'.arg # Zero) =>
          (roll_vector' = last'.arg /\ knockback_vector' = last'.arg)
    /\ ~(IsMoveFrame /\ last'.arg # Zero) =>
          UNCHANGED <<roll_vector, knockback_vector>>
    /\ (blend_position' # Zero) => (knockback_vector' = roll_vector')

\* C18: a Move frame with a non-zero input vector stores that vector in both
\* roll_vector and the sword hitbox's knockback_vector; no other frame, no
\* physics tick and no animation-finished callback changes either; so once
\* such a frame has run the two are equal in every state.
C18_AimedTogether == [][C18_Step]_vars

\* an upward roll, begun and finished: both vectors still point up
C18_Witness ==
    /\ calls = 3
    /\ last.op = "roll_animation_finished"
    /\ travel = "Roll"
    /\ roll_vector = Vec(0, -DQ)
    /\ knockback_vector = Vec(0, -DQ)

C19_Step ==
    /\ IsPlayerFrame =>
          (/\ (state = "Move" /\ last'.arg # Zero) => (travel' = "Run")
           /\ (state = "Move" /\ last'.arg = Zero) => (travel' = "Idle")
           /\ (state = "Attack") => (travel' = "Attack")
           /\ (state = "Roll") => (travel' = "Roll")
           /\ (state = "Move" /\ state' # "Move") =>
                 (travel' \in {"Run", "Idle"}))
    /\ (IsMoveFrame /\ last'.arg # Zero) => (blend_position' = last'.arg)
    /\ ~(IsMoveFrame /\ last'.arg # Zero) => (blend_position' = blend_position)
    /\ ~IsPlayerFrame => (travel' = travel)

\* C19: a player frame requests the animation of the state it started in:
\* Run in Move with a non-zero input vector, Idle in Move with none, Attack in
\* Attack, Roll in Roll; so the frame that accepts an attack or a roll still
\* requests Run or Idle and the next frame, started in the new state, is the
\* first to request Attack or Roll.  No other callback requests an animation,
\* and the blend positions are written by the Move frames with a non-zero
\* input vector only.
C19_Animation == (travel = "None") /\ [][C19_Step]_vars

\* the frame that accepted the attack requested Run (it wrote the blend
\* positions); the frame after it requested Attack
C19_Witness ==
    /\ calls = 2
    /\ last.op = "Player::_process"
    /\ state = "Attack"
    /\ travel = "Attack"
    /\ blend_position = Vec(DQ, 0)

=============================================================================
